---------------------------- MODULE Spec2Model ----------------------------
(***************************************************************************)
(* A model of tmpnam_s (src/src/io/tmpnam_s.c): the argument checks, the   *)
(* static call counter, the call of tmpnam() into the caller's buffer, the *)
(* checks of the result, and the reports to the constraint handler.        *)
(*                                                                         *)
(* Spec      one caller; every call of tmpnam_s is one step.               *)
(* SpecConc  several threads inside tmpnam_s at once; the unsynchronised   *)
(*           "++count; if (count > TMP_MAX_S)" is split into its memory    *)
(*           accesses.                                                     *)
(***************************************************************************)
EXTENDS Integers, Sequences, FiniteSets, TLC

(***************************************************************************)
(* Macros whose values come from headers outside tmpnam_s.c, and the width *)
(* of int.  The code depends on them only through comparisons; the model   *)
(* gives them small values that keep the order of the real ones            *)
(* (L_tmpnam_s < RSIZE_MAX_STR, TMP_MAX_S < INT_MAX).                      *)
(***************************************************************************)
\* L_tmpnam_s, line 109 and line 148
L_tmpnam_s == 3
\* RSIZE_MAX_STR, line 109
RSIZE_MAX_STR == 4
\* TMP_MAX_S, line 116
TMP_MAX_S == 3
\* the number of bits of "static int count", line 94
IntBits == 4
\* the number of threads of SpecConc
NThreads == 2

IntMax == 2^(IntBits - 1) - 1
IntMin == -(2^(IntBits - 1))

\* The longest name tmpnam() writes: the platform's L_tmpnam - 1, which a
\* configured L_tmpnam_s need not equal.
MaxLen == L_tmpnam_s + 2
\* The largest maxsize a caller passes in the model.
MaxCap == RSIZE_MAX_STR + 1
\* Calls with valid arguments of one run of Spec: enough to pass INT_MAX.
MaxCalls == IntMax + 3
\* Calls of one run of SpecConc.
MaxConcCalls == TMP_MAX_S + 2

\* errno_t values of safe_errno.h, and the platform's errno values
EOK == 0
ESNULLP == 400
ESZEROL == 401
ESLEMAX == 403
ESNOSPC == 406
ESNOTFND == 409
ENOENT == 2

VARIABLES
    count,      \* static int count (line 94)
    errno,      \* the platform's errno
    slack,      \* whether SAFECLIB_STR_NULL_SLACK is defined (line 154)
    alive,      \* FALSE once the process trapped on the overflow of count
    passed,     \* history: calls that passed the argument checks
    last,       \* history: the last call, its arguments and what it did
    pc,         \* SpecConc: where each thread is inside tmpnam_s
    reg,        \* SpecConc: the value of count each thread loaded
    rank,       \* SpecConc: calls that had passed the checks before this one
    entered,    \* SpecConc history: calls that passed the argument checks
    genCalls,   \* SpecConc history: calls that reached tmpnam()
    rejected    \* SpecConc history: the ranks of the calls rejected at line 119

seqVars == <<errno, slack, alive, passed, last>>
concVars == <<pc, reg, rank, entered, genCalls, rejected>>
vars == <<count, errno, slack, alive, passed, last, pc, reg, rank, entered,
          genCalls, rejected>>

Threads == 1..NThreads

(***************************************************************************)
(* Memory: the bytes at filename_s[0 .. MemTop].  The caller's array is    *)
(* filename_s[0 .. maxsize-1]; the cells from maxsize on are whatever lies *)
(* behind it.  A byte is a number, 0 the terminator.                       *)
(***************************************************************************)
MemTop == IF MaxLen > MaxCap THEN MaxLen ELSE MaxCap
Cells == 0..MemTop

\* What the caller's buffer holds before the call: stale text, or zeros.
Prefills == {[i \in Cells |-> 120], [i \in Cells |-> 0]}

\* The name of n characters the generator produces.
Candidate(n) == [i \in 1..n |-> 96 + i]

(***************************************************************************)
(* What tmpnam() may do when called.  It returns its argument after        *)
(* writing a non-empty name and its terminator there, or it returns NULL;  *)
(* then the buffer is untouched (name = <<>>) or holds what was written    *)
(* before the failure, and errno is set (seterr # 0) or left as it was.    *)
(***************************************************************************)
GenBehaviours ==
    {[ok |-> TRUE, name |-> Candidate(n), seterr |-> 0] : n \in 1..MaxLen}
    \cup {[ok |-> FALSE, name |-> s, seterr |-> e] :
             s \in {<<>>, Candidate(2)}, e \in {0, ENOENT}}

NoCandidate == [ok |-> FALSE, name |-> <<>>, seterr |-> 0]

\* tmpnam(filename_s), line 130
tmpnam(mem, g, err) ==
    LET n == Len(g.name)
        wrote == g.ok \/ n > 0
    IN [result  |-> g.ok,
        mem     |-> IF wrote
                    THEN [i \in Cells |-> IF i < n THEN g.name[i + 1]
                                          ELSE IF i = n THEN 0 ELSE mem[i]]
                    ELSE mem,
        written |-> IF wrote THEN 0..n ELSE {},
        errno   |-> IF g.ok \/ g.seterr = 0 THEN err ELSE g.seterr]

\* strlen(result), line 139
strlen(mem) ==
    CHOOSE n \in Cells : mem[n] = 0 /\ \A i \in 0..(n - 1) : mem[i] # 0

\* The bytes of the string at the start of mem.
String(mem) == [i \in 1..strlen(mem) |-> mem[i - 1]]

\* memset_s(&result[len], maxsize, 0, maxsize-len), line 155
memset_s(mem, from, n) ==
    [i \in Cells |-> IF i >= from /\ i < from + n THEN 0 ELSE mem[i]]

\* A violation: the message and code given to the handler, and the line
\* of the return statement.
Violation(msg, code, line) == [msg |-> msg, code |-> code, line |-> line]
NoViolation == Violation("", EOK, "pass")

ArgCheckZeroFirst(null, maxsize) ==
    IF maxsize = 0
    THEN Violation("tmpnam_s: maxsize is 0", ESZEROL, "L106")
    ELSE IF null
    THEN Violation("tmpnam_s: filename_s is null", ESNULLP, "L100")
    ELSE IF maxsize > RSIZE_MAX_STR \/ maxsize > L_tmpnam_s
    THEN Violation("tmpnam_s: maxsize exceeds max", ESLEMAX, "L112")
    ELSE NoViolation

ArgCheckNoLtmpnam(null, maxsize) ==
    IF null
    THEN Violation("tmpnam_s: filename_s is null", ESNULLP, "L100")
    ELSE IF maxsize = 0
    THEN Violation("tmpnam_s: maxsize is 0", ESZEROL, "L106")
    ELSE IF maxsize > RSIZE_MAX_STR
    THEN Violation("tmpnam_s: maxsize exceeds max", ESLEMAX, "L112")
    ELSE NoViolation

\* The three argument checks, lines 97-113.
ArgCheck(null, maxsize) ==
    IF null
    THEN Violation("tmpnam_s: filename_s is null", ESNULLP, "L100")
    ELSE IF maxsize = 0
    THEN Violation("tmpnam_s: maxsize is 0", ESZEROL, "L106")
    ELSE IF maxsize > RSIZE_MAX_STR \/ maxsize > L_tmpnam_s
    THEN Violation("tmpnam_s: maxsize exceeds max", ESLEMAX, "L112")
    ELSE NoViolation

\* ++count on an int, line 115.  At INT_MAX the increment overflows, which
\* is undefined: the build wraps to INT_MIN, or (-ftrapv) traps.
IncOutcomes(cnt) ==
    IF cnt < IntMax
    THEN {[count |-> cnt + 1, trap |-> FALSE]}
    ELSE {[count |-> IntMin, trap |-> FALSE], [count |-> cnt, trap |-> TRUE]}

\* count > TMP_MAX_S, line 116
Exhausted(cnt) == cnt > TMP_MAX_S

\* invoke_safe_str_constraint_handler(msg, NULL, code); return code;
Fail(s, v) ==
    [s EXCEPT !.ret = v.code, !.path = v.line,
              !.reports = Append(@, [msg |-> v.msg, code |-> v.code])]

\* *result = '\0', lines 144 and 151
Clear(s) == [s EXCEPT !.mem[0] = 0, !.written = @ \cup {0}]

\* The checks of the result of tmpnam(), lines 138-162.
ResultCheck(s, result, maxsize, withSlack) ==
    IF result
    THEN LET len == strlen(s.mem)
         IN IF len > maxsize
            THEN Fail(Clear(s),
                      Violation("tmpnam_s: length exceeds size", ESNOSPC, "L145"))
            ELSE IF len > L_tmpnam_s
            THEN Fail(Clear(s),
                      Violation("tmpnam_s: length exceeds L_tmpnam_s", ESLEMAX,
                                "L152"))
            ELSE IF withSlack
            THEN [s EXCEPT !.ret = EOK, !.path = "L157",
                           !.mem = memset_s(@, len, maxsize - len),
                           !.written = @ \cup len..(maxsize - 1),
                           !.zeroed = len..(maxsize - 1)]
            ELSE [s EXCEPT !.ret = EOK, !.path = "L157"]
    ELSE [Fail(s, Violation("tmpnam_s: tmpnam() failed", ESNOTFND, "L161"))
             EXCEPT !.ret = s.errno]

(***************************************************************************)
(* errno_t tmpnam_s(char *filename_s, rsize_t maxsize), lines 92-163.      *)
(* null: filename_s == NULL; mem: the memory at filename_s; cnt, err: the  *)
(* values of count and errno at the call; g: what tmpnam() does if called; *)
(* inc: the outcome of ++count.  The result holds what the call returned   *)
(* (ret, by the return statement path), the handler's reports, whether     *)
(* tmpnam() was called (gen) and with what result (cand), the memory       *)
(* after the call, the offsets written and those zeroed by memset_s.       *)
(***************************************************************************)
tmpnam_s(null, maxsize, mem, cnt, err, withSlack, g, inc) ==
    LET arg == ArgCheck(null, maxsize)
        s0 == [ret |-> EOK, path |-> "none", reports |-> <<>>, gen |-> FALSE,
               cand |-> NoCandidate, mem |-> mem, written |-> {},
               zeroed |-> {}, count |-> cnt, errno |-> err, trap |-> FALSE]
    IN IF arg.line # "pass" THEN Fail(s0, arg)
       ELSE IF inc.trap THEN [s0 EXCEPT !.trap = TRUE, !.path = "trap"]
       ELSE LET s1 == [s0 EXCEPT !.count = inc.count]
            IN IF Exhausted(inc.count)
               THEN Fail(s1, Violation("tmpnam_s: exceeds TMP_MAX_S", ESLEMAX,
                                       "L119"))
               ELSE LET t == tmpnam(mem, g, err)
                        s2 == [s1 EXCEPT !.gen = TRUE, !.cand = g,
                                         !.mem = t.mem, !.written = t.written,
                                         !.errno = t.errno]
                    IN ResultCheck(s2, t.result, maxsize, withSlack)

NoCall ==
    [null |-> FALSE, maxsize |-> 0, pre |-> [i \in Cells |-> 0],
     countBefore |-> 0, ret |-> EOK, path |-> "none", reports |-> <<>>,
     gen |-> FALSE, cand |-> NoCandidate, mem |-> [i \in Cells |-> 0],
     written |-> {}, zeroed |-> {}, count |-> 0, errno |-> 0,
     trap |-> FALSE]

Init ==
    /\ count = 0
    /\ errno = 0
    /\ slack \in BOOLEAN
    /\ alive = TRUE
    /\ passed = 0
    /\ last = NoCall
    /\ pc = [t \in Threads |-> "idle"]
    /\ reg = [t \in Threads |-> 0]
    /\ rank = [t \in Threads |-> 0]
    /\ entered = 0
    /\ genCalls = 0
    /\ rejected = {}

\* A call that fails an argument check reaches neither ++count nor tmpnam():
\* nothing is chosen for them.
GenChoices(null, maxsize) ==
    IF ArgCheck(null, maxsize).line = "pass" THEN GenBehaviours
    ELSE {NoCandidate}

IncChoices(null, maxsize, cnt) ==
    IF ArgCheck(null, maxsize).line = "pass" THEN IncOutcomes(cnt)
    ELSE {[count |-> cnt, trap |-> FALSE]}

(***************************************************************************)
(* One call of tmpnam_s by the only caller, with any arguments, any        *)
(* buffer contents and any behaviour of tmpnam().                          *)
(***************************************************************************)
Call ==
    /\ alive
    /\ \E null \in BOOLEAN, maxsize \in 0..MaxCap, pre \in Prefills :
         \E g \in GenChoices(null, maxsize),
            inc \in IncChoices(null, maxsize, count) :
           /\ ArgCheck(null, maxsize).line = "pass" => passed < MaxCalls
           /\ last' = [null |-> null, maxsize |-> maxsize, pre |-> pre,
                       countBefore |-> count]
                      @@ tmpnam_s(null, maxsize, pre, count, errno, slack, g,
                                  inc)
           /\ count' = last'.count
           /\ errno' = last'.errno
           /\ alive' = ~last'.trap
           /\ passed' = IF ArgCheck(null, maxsize).line = "pass"
                        THEN passed + 1 ELSE passed
    /\ UNCHANGED <<slack, pc, reg, rank, entered, genCalls, rejected>>

Next == Call

Spec == Init /\ [][Next]_vars

(***************************************************************************)
(* SpecConc: threads call tmpnam_s with valid arguments at the same time.  *)
(* count is a plain static int, so "++count" is a load and a store, and    *)
(* the comparison of line 116 reads count again or uses the value the      *)
(* thread just stored, as the compiler chose.                              *)
(***************************************************************************)
\* Lines 97-113 passed: the call is the (rank+1)-th to pass them.
Enter(t) ==
    /\ pc[t] = "idle"
    /\ entered < MaxConcCalls
    /\ rank' = [rank EXCEPT ![t] = entered]
    /\ entered' = entered + 1
    /\ pc' = [pc EXCEPT ![t] = "load"]
    /\ UNCHANGED <<count, reg, genCalls, rejected>>
    /\ UNCHANGED seqVars

\* Line 115, the read of count.
Load(t) ==
    /\ pc[t] = "load"
    /\ reg' = [reg EXCEPT ![t] = count]
    /\ pc' = [pc EXCEPT ![t] = "store"]
    /\ UNCHANGED <<count, rank, entered, genCalls, rejected>>
    /\ UNCHANGED seqVars

\* Line 115, the write of count.
Store(t) ==
    /\ pc[t] = "store"
    /\ count' = reg[t] + 1
    /\ pc' = [pc EXCEPT ![t] = "compare"]
    /\ UNCHANGED <<reg, rank, entered, genCalls, rejected>>
    /\ UNCHANGED seqVars

\* Lines 116-120.
Compare(t) ==
    /\ pc[t] = "compare"
    /\ \E v \in {reg[t] + 1, count} :
         IF Exhausted(v)
         THEN /\ rejected' = rejected \cup {rank[t]}
              /\ pc' = [pc EXCEPT ![t] = "idle"]
         ELSE /\ rejected' = rejected
              /\ pc' = [pc EXCEPT ![t] = "generate"]
    /\ UNCHANGED <<count, reg, rank, entered, genCalls>>
    /\ UNCHANGED seqVars

\* Line 130 and the return.
Generate(t) ==
    /\ pc[t] = "generate"
    /\ genCalls' = genCalls + 1
    /\ pc' = [pc EXCEPT ![t] = "idle"]
    /\ UNCHANGED <<count, reg, rank, entered, rejected>>
    /\ UNCHANGED seqVars

ConcNext ==
    \/ \E t \in Threads : Enter(t)
    \/ \E t \in Threads : Load(t)
    \/ \E t \in Threads : Store(t)
    \/ \E t \in Threads : Compare(t)
    \/ \E t \in Threads : Generate(t)

SpecConc == Init /\ [][ConcNext]_vars

(***************************************************************************)
(* Vocabulary of the properties.                                           *)
(***************************************************************************)
\* The last call returned (a call happened, and it did not trap).
Returned == last.path \notin {"none", "trap"}

\* The return statements that give a non-success outcome.
FailPaths == {"L100", "L106", "L112", "L119", "L145", "L152", "L161"}

\* The last call had valid arguments.
ValidArgs == ArgCheck(last.null, last.maxsize).line = "pass"

(***************************************************************************)
(* The properties, on the last call of Spec unless said otherwise.         *)
(***************************************************************************)

\* C1: the argument checks are applied in the order null buffer, zero
\* capacity, capacity above the maximum, and the first failing one decides:
\* a null buffer gives ESNULLP whatever the capacity; otherwise capacity 0
\* gives ESZEROL; otherwise a capacity above RSIZE_MAX_STR or L_tmpnam_s
\* gives ESLEMAX; in all three cases tmpnam() is not called and count is
\* left as it was, whatever its value.
C1_CheckOrder ==
    Returned =>
        /\ last.null =>
              last.ret = ESNULLP /\ ~last.gen /\ count = last.countBefore
        /\ ~last.null /\ last.maxsize = 0 =>
              last.ret = ESZEROL /\ ~last.gen /\ count = last.countBefore
        /\ /\ ~last.null
           /\ last.maxsize > 0
           /\ (last.maxsize > RSIZE_MAX_STR \/ last.maxsize > L_tmpnam_s)
           => last.ret = ESLEMAX /\ ~last.gen /\ count = last.countBefore

\* A call with a null buffer and capacity 0 at once, made when the counter
\* had already passed TMP_MAX_S, returned ESNULLP.
C1_Witness ==
    /\ Returned
    /\ last.null
    /\ last.maxsize = 0
    /\ last.countBefore > TMP_MAX_S
    /\ last.ret = ESNULLP

\* C2: a call with a non-null buffer that returns a non-success outcome
\* (ZeroLength, CapacityExceeded, ResourceExhausted, BufferTooSmall or
\* GeneratorFailed) leaves the terminator in byte 0 of the buffer.
C2_FailureClearsBuffer ==
    (Returned /\ ~last.null /\ last.path \in FailPaths) => last.mem[0] = 0

\* C3: the first TMP_MAX_S calls that pass the argument checks are not
\* rejected for exhaustion, and every later call that passes them returns
\* ESLEMAX from the exhaustion check without calling tmpnam(), however many
\* calls follow.
C3_PermanentExhaustion ==
    (Returned /\ ValidArgs) =>
        /\ passed <= TMP_MAX_S => last.path # "L119"
        /\ passed > TMP_MAX_S => last.path = "L119" /\ ~last.gen

\* C4 (SpecConc): under every interleaving of concurrent callers with valid
\* arguments no increment of count is lost, at most TMP_MAX_S calls reach
\* tmpnam(), and no call is rejected for exhaustion while fewer than
\* TMP_MAX_S calls passed the argument checks before it.
C4_AtomicIncrementCompare ==
    /\ (\A t \in Threads : pc[t] = "idle") => count = entered
    /\ genCalls <= TMP_MAX_S
    /\ \A r \in rejected : r >= TMP_MAX_S

\* C5: every byte the call writes into the caller's buffer, the terminator
\* included, lies at an offset in 0 .. maxsize-1.
C5_WritesWithinCapacity ==
    (Returned /\ ~last.null) => last.written \subseteq 0..(last.maxsize - 1)

\* C6: when tmpnam() returns no candidate the call returns a non-success
\* code, whatever errno holds; the call returns success only if tmpnam()
\* returned a candidate whose length fits maxsize and L_tmpnam_s.
C6_GeneratorFailureIsFailure ==
    Returned =>
        /\ (last.gen /\ ~last.cand.ok) => last.ret # EOK
        /\ last.ret = EOK =>
              /\ last.gen
              /\ last.cand.ok
              /\ Len(last.cand.name) <= last.maxsize
              /\ Len(last.cand.name) <= L_tmpnam_s

\* C7: the handler is invoked exactly once in a call that returns a
\* non-success code, with that code as its reason, and not at all in a call
\* that returns success.
C7_ReportOncePerFailure ==
    Returned =>
        /\ last.ret # EOK =>
              Len(last.reports) = 1 /\ last.reports[1].code = last.ret
        /\ last.ret = EOK => last.reports = <<>>

\* C8: after a call that returns success the buffer holds the candidate
\* tmpnam() returned, and its length is at least 1, at most maxsize and at
\* most L_tmpnam_s.
C8_SuccessLeavesCandidate ==
    (Returned /\ last.ret = EOK) =>
        /\ last.gen
        /\ last.cand.ok
        /\ String(last.mem) = last.cand.name
        /\ strlen(last.mem) >= 1
        /\ strlen(last.mem) <= last.maxsize
        /\ strlen(last.mem) <= L_tmpnam_s

\* C9: with SAFECLIB_STR_NULL_SLACK, after a successful call with a
\* candidate of length len the bytes 0 .. len-1 are the candidate, the bytes
\* len .. maxsize-1 are zero and no byte at an offset >= maxsize was
\* written; a failing call zeroes no tail.
C9_TailZeroed ==
    (slack /\ Returned) =>
        /\ last.path = "L157" =>
              /\ \A i \in 1..Len(last.cand.name) :
                    last.mem[i - 1] = last.cand.name[i]
              /\ \A i \in Len(last.cand.name)..(last.maxsize - 1) :
                    last.mem[i] = 0
              /\ last.written \subseteq 0..(last.maxsize - 1)
        /\ last.path \in FailPaths => last.zeroed = {}

\* C10: the check of the result never gives ESLEMAX: the return of line 152
\* is not reached, for any candidate, and a returned ESLEMAX comes from the
\* capacity check (line 112) or the exhaustion check (line 119).
C10_NoLateCapacityExceeded ==
    Returned =>
        /\ last.path # "L152"
        /\ last.ret = ESLEMAX => last.path \in {"L112", "L119"}

\* A candidate longer than L_tmpnam_s was rejected as too long for the
\* buffer (ESNOSPC, line 145).
C10_Witness ==
    /\ Returned
    /\ last.gen
    /\ last.cand.ok
    /\ Len(last.cand.name) > L_tmpnam_s
    /\ last.path = "L145"
    /\ last.ret = ESNOSPC

=============================================================================
